---- MODULE Spec2Model ----
(***************************************************************************)
(* Model of src/frameByFrame.ts (class FrameByFrame).                      *)
(*                                                                         *)
(* One action is one macrotask of the host event loop (image load/error    *)
(* event, scroll event, resize event, HD timeout, interval tick) together  *)
(* with every promise reaction (microtask) it triggers, because no other   *)
(* macrotask can run before the microtask queue is drained.                *)
(*                                                                         *)
(* Real-valued options (percentages) are fractions [num, den] and the      *)
(* arithmetic of the source is carried out exactly on them.                *)
(***************************************************************************)
EXTENDS Integers, Sequences, FiniteSets, TLC

VARIABLES
    opt,                        \* this._options (the fields the loader reads)
    windowHeight,               \* this.windowHeight
    scrollTop,                  \* document.documentElement.scrollTop (host)
    loadedImages,               \* this.loadedImages: index -> image (0 = none)
    loadedHighResImages,        \* this.loadedHighResImages
    inflight,                   \* image elements whose src is set, not yet load/error
    preloadState,               \* state of the promise returned by preloader()
    listening,                  \* resize/scroll listeners registered
    HDTimerId,                  \* TRUE while the HD timeout is pending
    intervalState,              \* "unset" | "armed" | "cleared" (setInterval id)
    latestIntervalLoadedImage,  \* closure variable of setIntervalLoad
    loops,                      \* interval callbacks suspended on an await
    forwardLoading,             \* this.forwardLoading: Fulfilled, Rejected or Pending(chain)
    pendingChains,              \* chains whose Promise.all is still pending
    chainIndex,                 \* requestedImageIndex of each pending chain's forwardLoad
    waiters,                    \* forwardLoad calls suspended on this.forwardLoading
    isFowardLoading,            \* this.isFowardLoading
    onCompleteCount,            \* number of calls of options.onComplete
    events,                     \* observable effects of the last macrotask, in order
    hostEvents,                 \* scroll and resize events delivered so far
    probe                       \* inputs of a stand-alone call of a pure function

vars == <<opt, windowHeight, scrollTop, loadedImages, loadedHighResImages,
          inflight, preloadState, listening, HDTimerId, intervalState,
          latestIntervalLoadedImage, loops, forwardLoading, pendingChains,
          chainIndex, waiters, isFowardLoading, onCompleteCount, events, hostEvents, probe>>

(***************************************************************************)
(* Bounds                                                                  *)
(***************************************************************************)
\* image elements that may wait for their load/error event at the same time
MaxInFlight == 2
\* forwardLoad calls that may wait on the same chain
MaxWaiters == 2
\* scroll and resize events the host delivers in one session
MaxHostEvents == 2
\* largest viewport height
MaxWindowHeight == 2
\* the resolver alone is called with scroll offsets -MaxProbe .. MaxProbe + 3
MaxProbe == 3

\* image elements: the source (tier, index) they were created for and an identity
Image(highRes, index, id) == [highRes |-> highRes, index |-> index, id |-> id]
NoImage == Image(FALSE, -1, 0)
\* this.forwardLoading: a settled promise, or the pending Promise.all of a chain
Fulfilled == [state |-> "fulfilled", chain |-> 0]
Rejected == [state |-> "rejected", chain |-> 0]
Pending(c) == [state |-> "pending", chain |-> c]

Min(a, b) == IF a < b THEN a ELSE b
Max(a, b) == IF a > b THEN a ELSE b

numberOfImages == opt.N
Indices == 0 .. (numberOfImages - 1)

(***************************************************************************)
(* The mutable program state handled inside one macrotask.  ok = FALSE     *)
(* marks a macrotask that would exceed a bound of the model; immediate     *)
(* records that a chain without pending members was created, whose         *)
(* "isFowardLoading = false" reaction runs after the queued reactions.     *)
(***************************************************************************)
Cur ==
    [loadedImages |-> loadedImages,
     loadedHighResImages |-> loadedHighResImages,
     inflight |-> inflight,
     preloadState |-> preloadState,
     listening |-> listening,
     HDTimerId |-> HDTimerId,
     intervalState |-> intervalState,
     latestIntervalLoadedImage |-> latestIntervalLoadedImage,
     loops |-> loops,
     forwardLoading |-> forwardLoading,
     pendingChains |-> pendingChains,
     chainIndex |-> chainIndex,
     waiters |-> waiters,
     isFowardLoading |-> isFowardLoading,
     onCompleteCount |-> onCompleteCount,
     events |-> << >>,
     immediate |-> FALSE,
     ok |-> TRUE]

Commit(s) ==
    /\ s.ok
    /\ loadedImages' = s.loadedImages
    /\ loadedHighResImages' = s.loadedHighResImages
    /\ inflight' = s.inflight
    /\ preloadState' = s.preloadState
    /\ listening' = s.listening
    /\ HDTimerId' = s.HDTimerId
    /\ intervalState' = s.intervalState
    /\ latestIntervalLoadedImage' = s.latestIntervalLoadedImage
    /\ loops' = s.loops
    /\ forwardLoading' = s.forwardLoading
    /\ pendingChains' = s.pendingChains
    /\ chainIndex' = s.chainIndex
    /\ waiters' = s.waiters
    /\ isFowardLoading' = s.isFowardLoading
    /\ onCompleteCount' = s.onCompleteCount
    /\ events' = s.events

Event(type, index, img) == [type |-> type, index |-> index, img |-> img]
Emit(s, e) == [s EXCEPT !.events = Append(@, e)]

(***************************************************************************)
(* getRequestedImageIndex: floor(top / px - windowHeight / px) with        *)
(* top = scrollTop + windowHeight, in exact arithmetic, then the upper     *)
(* clamp.  There is no lower clamp in the source.                          *)
(***************************************************************************)
getRequestedImageIndex(scroll, wh, px, n) ==
    LET top == scroll + wh
        requestedImageIndex == Min(n - 1, (top - wh) \div px)
    IN  IF requestedImageIndex >= n - 1 THEN n - 1 ELSE requestedImageIndex

(***************************************************************************)
(* createImageBase + "img.src = src": a new image element starts loading.  *)
(* kind/ref name the continuation that waits for its load/error event.     *)
(***************************************************************************)
SameKey(s, highRes, index) ==
    {f \in s.inflight : f.img.highRes = highRes /\ f.img.index = index}

Lookup(s, highRes, index) ==
    IF highRes THEN s.loadedHighResImages[index] ELSE s.loadedImages[index]

FreshId(s, highRes, index) ==
    LET used == {f.img.id : f \in SameKey(s, highRes, index)}
                    \cup {Lookup(s, highRes, index).id}
    IN  CHOOSE k \in 1 .. (MaxInFlight + 2) :
            /\ k \notin used
            /\ \A j \in 1 .. (k - 1) : j \in used

createImageBase(s, index, highRes, kind, ref) ==
    IF Cardinality(s.inflight) >= MaxInFlight
    THEN [s EXCEPT !.ok = FALSE]
    ELSE [s EXCEPT !.inflight = @ \cup
            {[img |-> Image(highRes, index, FreshId(s, highRes, index)),
              kind |-> kind, ref |-> ref]}]

(***************************************************************************)
(* loadImage: cache hit -> resolved (or rejected when rejectAlreadyLoaded);*)
(* otherwise a new image element is created, whatever is already loading.  *)
(***************************************************************************)
loadImage(s, index, highRes, rejectAlreadyLoaded, kind, ref) ==
    LET loadedImage == Lookup(s, highRes, index)
    IN  IF loadedImage # NoImage
        THEN [st |-> s,
              res |-> IF rejectAlreadyLoaded THEN "rejected" ELSE "resolved",
              img |-> loadedImage]
        ELSE [st |-> createImageBase(s, index, highRes, kind, ref),
              res |-> "pending",
              img |-> NoImage]

\* the 'load' listener of loadImage: loadedImages[imgBase.index] = imgBase.img
storeImage(s, img) ==
    IF img.highRes
    THEN [s EXCEPT !.loadedHighResImages[img.index] = img]
    ELSE [s EXCEPT !.loadedImages[img.index] = img]

(***************************************************************************)
(* Forward look-ahead                                                      *)
(***************************************************************************)
\* getForwardLoadingUpperBound, as a fraction over the threshold's denominator
getForwardLoadingUpperBound(requestedImageIndex) ==
    LET thr == opt.forwardLoadingThreshold
    IN  [num |-> Min(requestedImageIndex * thr.den + numberOfImages * thr.num,
                     numberOfImages * thr.den),
         den |-> thr.den]

\* the loop of forwardLoad started at the requested index itself
forwardWindowFromRequested(requestedImageIndex) ==
    LET ub == getForwardLoadingUpperBound(requestedImageIndex)
    IN  {i \in Indices : i >= requestedImageIndex /\ i * ub.den < ub.num}

\* the indices i of "for (i = requestedImageIndex + 1; i < ub; i++)"
forwardWindow(requestedImageIndex) ==
    LET ub == getForwardLoadingUpperBound(requestedImageIndex)
    IN  {i \in Indices : i >= requestedImageIndex + 1 /\ i * ub.den < ub.num}

ChainsInUse(s) ==
    s.pendingChains \cup {f.ref : f \in {g \in s.inflight : g.kind = "forward"}}

FreshChain(s) ==
    CHOOSE c \in 1 .. (MaxInFlight + 1) :
        /\ c \notin ChainsInUse(s)
        /\ \A j \in 1 .. (c - 1) : j \in ChainsInUse(s)

\* the frames of the forwardLoad calls whose chain is pending: chain -> index
Bind(m, c, requestedImageIndex) ==
    [x \in DOMAIN m \cup {c} |-> IF x = c THEN requestedImageIndex ELSE m[x]]
Unbind(m, c) == [x \in DOMAIN m \ {c} |-> m[x]]

\* a loop "for (...) promises.push(this.loadImage(i))" over the indices is
RECURSIVE loadAll(_, _, _, _)
loadAll(s, is, kind, ref) ==
    IF is = {} THEN s
    ELSE LET i == CHOOSE j \in is : \A k \in is : j <= k
         IN  loadAll(loadImage(s, i, FALSE, FALSE, kind, ref).st,
                     is \ {i}, kind, ref)

\* forwardLoad after "await this.forwardLoading" returned: lines 309-317
startChain(s, requestedImageIndex) ==
    LET c == FreshChain(s)
        s1 == loadAll(s, forwardWindow(requestedImageIndex), "forward", c)
    IN  IF s1.inflight = s.inflight
        THEN [s1 EXCEPT !.forwardLoading = Fulfilled,
                        !.isFowardLoading = TRUE,
                        !.immediate = TRUE]
        ELSE [s1 EXCEPT !.forwardLoading = Pending(c),
                        !.pendingChains = @ \cup {c},
                        !.chainIndex = Bind(@, c, requestedImageIndex),
                        !.isFowardLoading = TRUE]

\* forwardLoad up to and including "await this.forwardLoading"
forwardLoad(s, requestedImageIndex) ==
    IF s.forwardLoading = Rejected
    THEN s
    ELSE IF s.forwardLoading = Fulfilled
    THEN startChain(s, requestedImageIndex)
    ELSE IF Len(s.waiters) >= MaxWaiters
    THEN [s EXCEPT !.ok = FALSE]
    ELSE [s EXCEPT !.waiters = Append(@, requestedImageIndex)]

\* the reaction "() => this.isFowardLoading = false" of chains that had
\* nothing to wait for; it runs after the reactions queued before it
drainImmediate(s) ==
    IF s.immediate
    THEN [s EXCEPT !.isFowardLoading = FALSE, !.immediate = FALSE]
    ELSE s

RECURSIVE resumeWaiters(_, _)
resumeWaiters(s, ws) ==
    IF ws = << >> THEN s
    ELSE resumeWaiters(startChain(s, Head(ws)), Tail(ws))

\* Promise.all of chain c fulfilled: line 317, then the suspended forwardLoads
chainFulfilled(s, c) ==
    LET s1 == [s EXCEPT !.isFowardLoading = FALSE,
                        !.pendingChains = @ \ {c},
                        !.chainIndex = Unbind(@, c)]
    IN  IF s.forwardLoading = Pending(c)
        THEN drainImmediate(
                resumeWaiters([s1 EXCEPT !.forwardLoading = Fulfilled,
                                         !.waiters = << >>],
                              s.waiters))
        ELSE s1

\* Promise.all of chain c rejected: no reaction runs, the suspended
\* forwardLoads throw at their await
chainRejected(s, c) ==
    LET s1 == [s EXCEPT !.pendingChains = @ \ {c},
                        !.chainIndex = Unbind(@, c)]
    IN  IF s.forwardLoading = Pending(c)
        THEN [s1 EXCEPT !.forwardLoading = Rejected, !.waiters = << >>]
        ELSE s1

(***************************************************************************)
(* Background fill                                                         *)
(***************************************************************************)
FreshLoop(s) ==
    CHOOSE l \in 1 .. (MaxInFlight + 1) :
        /\ l \notin {x.id : x \in s.loops}
        /\ \A j \in 1 .. (l - 1) : j \in {x.id : x \in s.loops}

\* the loop requesting the next index without advancing the shared cursor
intervalLoopCursorKept(s, l, numberOfImagesToLoad) ==
    IF numberOfImagesToLoad > 0 /\ s.latestIntervalLoadedImage < numberOfImages - 1
    THEN LET r == loadImage(s, s.latestIntervalLoadedImage + 1, FALSE, TRUE,
                            "interval", l)
         IN  IF r.res = "rejected"
             THEN s
             ELSE [r.st EXCEPT !.loops = @ \cup
                        {[id |-> l, n |-> numberOfImagesToLoad]}]
    ELSE s

\* the while loop of the interval callback, from its condition up to the
\* next await that suspends it (lines 147-153); l is the callback instance
intervalLoop(s, l, numberOfImagesToLoad) ==
    IF numberOfImagesToLoad > 0 /\ s.latestIntervalLoadedImage < numberOfImages - 1
    THEN LET s1 == [s EXCEPT !.latestIntervalLoadedImage = @ + 1]
             r == loadImage(s1, s1.latestIntervalLoadedImage, FALSE, TRUE,
                            "interval", l)
         IN  IF r.res = "rejected"
             THEN s1     \* the rejection handler throws: the callback ends
             ELSE [r.st EXCEPT !.loops = @ \cup
                        {[id |-> l, n |-> numberOfImagesToLoad]}]
    ELSE s

\* the callback with the timer cancelled one index too early
intervalCallbackEarlyClear(s) ==
    IF s.latestIntervalLoadedImage >= numberOfImages - 2
    THEN [s EXCEPT !.intervalState = "cleared"]
    ELSE IF ~ s.isFowardLoading
    THEN intervalLoop(s, FreshLoop(s),
                      (numberOfImages * opt.intervalLoadPercentage.num)
                          \div opt.intervalLoadPercentage.den)
    ELSE s

\* one call of the setInterval callback (lines 137-155)
intervalCallback(s) ==
    IF s.latestIntervalLoadedImage = numberOfImages - 1
    THEN [s EXCEPT !.intervalState = "cleared"]
    ELSE IF ~ s.isFowardLoading
    THEN intervalLoop(s, FreshLoop(s),
                      (numberOfImages * opt.intervalLoadPercentage.num)
                          \div opt.intervalLoadPercentage.den)
    ELSE s

\* setIntervalLoad: Object.keys(loadedImages).reduce(max) throws a TypeError
\* on an empty cache; thrown = TRUE reports it to the caller
setIntervalLoad(s) ==
    LET keys == {i \in Indices : s.loadedImages[i] # NoImage}
    IN  IF keys = {}
        THEN [st |-> s, thrown |-> TRUE]
        ELSE [st |-> [s EXCEPT !.latestIntervalLoadedImage =
                                    CHOOSE a \in keys : \A b \in keys : a >= b,
                               !.intervalState = "armed"],
              thrown |-> FALSE]

(***************************************************************************)
(* Display load                                                            *)
(***************************************************************************)
\* drawOnCanvas: one drawImage call with the given image
drawOnCanvas(s, img) ==
    IF img # NoImage THEN Emit(s, Event("draw", img.index, img)) ELSE s

\* displayLoaded with the callback fired before the frame is drawn
displayLoadedCallbackFirst(s, requestedImageIndex, img) ==
    LET s1 == Emit(s, Event("onFrameUpdated", requestedImageIndex, NoImage))
        s2 == forwardLoad(s1, requestedImageIndex)
    IN  drawOnCanvas(s2, img)

\* the reaction registered in drawOnScreenImage (lines 191-195)
displayLoaded(s, requestedImageIndex, img) ==
    LET s1 == drawOnCanvas(s, img)
        s2 == forwardLoad(s1, requestedImageIndex)
    IN  Emit(s2, Event("onFrameUpdated", requestedImageIndex, NoImage))

\* the reaction of the constructor on setTheaterSize(true) (lines 108-128)
readyEntry(s) ==
    LET s1 == [s EXCEPT !.listening = TRUE]
        r == setIntervalLoad(s1)
    IN  IF r.thrown
        THEN r.st
        ELSE Emit([r.st EXCEPT !.onCompleteCount = @ + 1],
                  Event("onComplete", -1, NoImage))

\* the reactions on the promise of a display load, in registration order
displayReactions(s, requestedImageIndex, img, kind) ==
    LET s1 == displayLoaded(s, requestedImageIndex, img)
        s2 == IF kind = "first" THEN readyEntry(s1)
              ELSE IF kind = "resize"
              THEN Emit(s1, Event("onResizeCompleted", -1, NoImage))
              ELSE s1
    IN  drainImmediate(s2)

\* drawOnScreenImage; kind names the caller, which decides the second reaction
drawOnScreenImage(s, scroll, highRes, kind) ==
    LET requestedImageIndex ==
            getRequestedImageIndex(scroll, windowHeight, opt.pxPerImg, numberOfImages)
        r == loadImage(s, requestedImageIndex, highRes, FALSE, kind, 0)
    IN  IF r.res = "resolved"
        THEN displayReactions(r.st, requestedImageIndex, r.img, kind)
        ELSE r.st

setTheaterSize(s, scroll, highRes, kind) ==
    drawOnScreenImage(s, scroll, highRes, kind)

(***************************************************************************)
(* Preload                                                                 *)
(***************************************************************************)
\* the indices i of "for (i = 0; i < length * preLoadingPercentage; i++)"
preloadWindow ==
    {i \in Indices : i * opt.preLoadingPercentage.den
                        < numberOfImages * opt.preLoadingPercentage.num}

\* the reaction of the constructor on preloader() (lines 104-108)
preloaded(s, scroll) ==
    setTheaterSize([s EXCEPT !.preloadState = "fulfilled"], scroll, TRUE, "first")

\* preloader(), and its reaction when Promise.all had nothing to wait for
preloader(s, scroll) ==
    LET s1 == loadAll(s, preloadWindow, "preload", 0)
    IN  IF s1.inflight = s.inflight THEN preloaded(s1, scroll) ELSE s1

(***************************************************************************)
(* load / error event of an image element                                  *)
(***************************************************************************)
Others(s, kind, ref) == {g \in s.inflight : g.kind = kind /\ g.ref = ref}

DisplayKinds == {"first", "scroll", "hd", "resize"}

imageLoaded(s0, f, scroll) ==
    LET s == storeImage([s0 EXCEPT !.inflight = @ \ {f}], f.img)
    IN  CASE f.kind = "preload" ->
                IF s.preloadState = "pending" /\ Others(s, "preload", 0) = {}
                THEN preloaded(s, scroll)
                ELSE s
          [] f.kind \in DisplayKinds ->
                displayReactions(s, f.img.index, f.img, f.kind)
          [] f.kind = "forward" ->
                IF f.ref \in s.pendingChains /\ Others(s, "forward", f.ref) = {}
                THEN chainFulfilled(s, f.ref)
                ELSE s
          [] f.kind = "interval" ->
                LET x == CHOOSE y \in s.loops : y.id = f.ref
                IN  intervalLoop([s EXCEPT !.loops = @ \ {x}], x.id, x.n - 1)

\* the 'error' listener storing the image element as the 'load' listener does
imageFailedCaching(s0, f) ==
    LET s == Emit(storeImage([s0 EXCEPT !.inflight = @ \ {f}], f.img),
                  Event("error", f.img.index, f.img))
    IN  CASE f.kind = "preload" ->
                IF s.preloadState = "pending"
                THEN [s EXCEPT !.preloadState = "rejected"]
                ELSE s
          [] f.kind \in DisplayKinds ->
                Emit(s, Event("displayFailed", f.img.index, f.img))
          [] f.kind = "forward" ->
                IF f.ref \in s.pendingChains THEN chainRejected(s, f.ref) ELSE s
          [] f.kind = "interval" ->
                [s EXCEPT !.loops = {y \in @ : y.id # f.ref}]

\* the 'error' listener of loadImage (lines 259-261) and the rejection reactions
imageFailed(s0, f) ==
    LET s == Emit([s0 EXCEPT !.inflight = @ \ {f}],
                  Event("error", f.img.index, f.img))
    IN  CASE f.kind = "preload" ->
                IF s.preloadState = "pending"
                THEN [s EXCEPT !.preloadState = "rejected"]
                ELSE s
          [] f.kind \in DisplayKinds ->
                Emit(s, Event("displayFailed", f.img.index, f.img))
          [] f.kind = "forward" ->
                IF f.ref \in s.pendingChains THEN chainRejected(s, f.ref) ELSE s
          [] f.kind = "interval" ->
                [s EXCEPT !.loops = {y \in @ : y.id # f.ref}]

(***************************************************************************)
(* Configurations and initial state                                        *)
(***************************************************************************)
Option(n, px, pre, fwd, int) ==
    [N |-> n, pxPerImg |-> px, preLoadingPercentage |-> pre,
     forwardLoadingThreshold |-> fwd, intervalLoadPercentage |-> int]

Pct(num, den) == [num |-> num, den |-> den]

Configs ==
    {Option(3, 1, Pct(1, 4), Pct(2, 4), Pct(3, 4)),
     Option(3, 1, Pct(0, 4), Pct(2, 4), Pct(3, 4))}

NoProbe == [fn |-> "none"]

\* setTheaterSize makes the story N * pxPerImg + windowHeight high, so the
\* host can scroll the document from 0 to N * pxPerImg
ScrollOffsets == 0 .. (numberOfImages * opt.pxPerImg)

\* the fields as declared (lines 70-75) before the constructor body runs
Fresh ==
    [loadedImages |-> [i \in Indices |-> NoImage],
     loadedHighResImages |-> [i \in Indices |-> NoImage],
     inflight |-> {},
     preloadState |-> "pending",
     listening |-> FALSE,
     HDTimerId |-> FALSE,
     intervalState |-> "unset",
     latestIntervalLoadedImage |-> -1,
     loops |-> {},
     forwardLoading |-> Fulfilled,
     pendingChains |-> {},
     chainIndex |-> << >>,
     waiters |-> << >>,
     isFowardLoading |-> FALSE,
     onCompleteCount |-> 0,
     events |-> << >>,
     immediate |-> FALSE,
     ok |-> TRUE]

Establish(s) ==
    /\ s.ok
    /\ loadedImages = s.loadedImages
    /\ loadedHighResImages = s.loadedHighResImages
    /\ inflight = s.inflight
    /\ preloadState = s.preloadState
    /\ listening = s.listening
    /\ HDTimerId = s.HDTimerId
    /\ intervalState = s.intervalState
    /\ latestIntervalLoadedImage = s.latestIntervalLoadedImage
    /\ loops = s.loops
    /\ forwardLoading = s.forwardLoading
    /\ pendingChains = s.pendingChains
    /\ chainIndex = s.chainIndex
    /\ waiters = s.waiters
    /\ isFowardLoading = s.isFowardLoading
    /\ onCompleteCount = s.onCompleteCount
    /\ events = s.events

\* the state when the constructor has returned and its microtasks have run
Constructed ==
    /\ opt \in Configs
    /\ windowHeight = MaxWindowHeight
    /\ scrollTop \in ScrollOffsets
    /\ hostEvents = 0
    /\ Establish(preloader(Fresh, scrollTop))

Init ==
    /\ Constructed
    /\ probe = NoProbe

(***************************************************************************)
(* Actions: the macrotasks                                                 *)
(***************************************************************************)
Static == UNCHANGED <<opt, windowHeight, probe>>

ImageLoad ==
    \E f \in inflight :
        /\ Commit(imageLoaded(Cur, f, scrollTop))
        /\ UNCHANGED <<scrollTop, hostEvents>>
        /\ Static

ImageError ==
    \E f \in inflight :
        /\ Commit(imageFailed(Cur, f))
        /\ UNCHANGED <<scrollTop, hostEvents>>
        /\ Static

\* the 'scroll' listener without the timer: the frame is drawn, no
\* high-resolution pass is scheduled
scrollListenerNoTimer(s, scroll) ==
    IF s.listening
    THEN drawOnScreenImage(s, scroll, FALSE, "scroll")
    ELSE s

\* the 'scroll' listener (lines 113-123); before it is registered a scroll
\* only moves the host's offset
scrollListener(s, scroll) ==
    IF s.listening
    THEN drawOnScreenImage([s EXCEPT !.HDTimerId = TRUE], scroll, FALSE, "scroll")
    ELSE s

Scroll ==
    \E t \in ScrollOffsets \ {scrollTop} :
        /\ hostEvents < MaxHostEvents
        /\ hostEvents' = hostEvents + 1
        /\ scrollTop' = t
        /\ Commit(scrollListener(Cur, t))
        /\ Static

\* the timeout set by the scroll listener (lines 116-119)
HDTimeout ==
    /\ HDTimerId
    /\ Commit(drawOnScreenImage([Cur EXCEPT !.HDTimerId = FALSE],
                                scrollTop, TRUE, "hd"))
    /\ UNCHANGED <<scrollTop, hostEvents>>
    /\ Static

\* the 'resize' listener (line 110)
Resize ==
    /\ listening
    /\ hostEvents < MaxHostEvents
    /\ hostEvents' = hostEvents + 1
    /\ Commit(setTheaterSize(Cur, scrollTop, FALSE, "resize"))
    /\ UNCHANGED scrollTop
    /\ Static

IntervalTick ==
    /\ intervalState = "armed"
    /\ Commit(intervalCallback(Cur))
    /\ UNCHANGED <<scrollTop, hostEvents>>
    /\ Static

Next ==
    \/ ImageLoad
    \/ ImageError
    \/ Scroll
    \/ HDTimeout
    \/ Resize
    \/ IntervalTick

Spec == Init /\ [][Next]_vars

(***************************************************************************)
(* getRequestedImageIndex on its own: the host's scroll offset may be any  *)
(* integer, also a negative one (elastic overscroll).                      *)
(***************************************************************************)
ResolverCall ==
    \E sc \in (0 - MaxProbe) .. (MaxProbe + 3), wh \in {0, MaxWindowHeight},
       px \in 1 .. 3, n \in 1 .. 3 :
        /\ probe' = [fn |-> "getRequestedImageIndex",
                     scroll |-> sc, wh |-> wh, px |-> px, n |-> n,
                     result |-> getRequestedImageIndex(sc, wh, px, n)]
        /\ UNCHANGED <<opt, windowHeight, scrollTop, loadedImages,
                       loadedHighResImages, inflight, preloadState, listening,
                       HDTimerId, intervalState, latestIntervalLoadedImage,
                       loops, forwardLoading, pendingChains, chainIndex, waiters,
                       isFowardLoading, onCompleteCount, events, hostEvents>>

NextResolver == ResolverCall

SpecResolver == Init /\ [][NextResolver]_vars

(***************************************************************************)
(* Claims                                                                  *)
(***************************************************************************)
SameSource(f, g) ==
    f.img.highRes = g.img.highRes /\ f.img.index = g.img.index

EventTypes(types) ==
    {k \in 1 .. Len(events) : events[k].type \in types}

\* C1: single-flight fetch - in every reachable state at most one image
\* element per (tier, index) is waiting for its load/error event.
C1_SingleFlight ==
    \A f, g \in inflight : SameSource(f, g) => f = g

\* C2: forward chains are strictly serialized - in every reachable state at
\* most one forward chain has member fetches that are still unsettled.
C2_ChainsSerialized ==
    Cardinality({f.ref : f \in {g \in inflight : g.kind = "forward"}}) <= 1

\* C3: cache entries are write-once - a step never removes a stored image
\* and never replaces it by a different image element, in either tier.
C3_WriteOnce ==
    [][\A i \in Indices :
          /\ loadedImages[i] # NoImage => loadedImages'[i] = loadedImages[i]
          /\ loadedHighResImages[i] # NoImage =>
                loadedHighResImages'[i] = loadedHighResImages[i]]_vars

\* C4: for every scroll offset (negative ones included), viewport height,
\* pitch > 0 and N >= 1 getRequestedImageIndex returns
\* min(N-1, max(0, floor(scrollOffset / pitch))).
C4_ResolverClamped ==
    probe.fn = "getRequestedImageIndex" =>
        probe.result = Min(probe.n - 1, Max(0, probe.scroll \div probe.px))

\* C5: stale redraws are guarded - every frame drawn in a step is the frame
\* of the index resolved from the scroll offset at that moment.
C5_NoStaleDraw ==
    \A k \in EventTypes({"draw"}) :
        events[k].index =
            getRequestedImageIndex(scrollTop, windowHeight, opt.pxPerImg,
                                   numberOfImages)

\* C6: partial preload failure does not block startup - once every preload
\* fetch has settled, by load or by error, the preload operation has
\* completed and startup has gone on to the first display load.
C6_PreloadCompletes ==
    (\A f \in inflight : f.kind # "preload") => preloadState = "fulfilled"

\* C7: onComplete is fired exactly once, on the transition into Ready - never
\* more than once, never before the preload has completed and the first
\* frame has been drawn, and it has been fired as soon as the first display
\* load after a successful preload has succeeded.
C7_OnCompleteOnce ==
    /\ onCompleteCount <= 1
    /\ onCompleteCount = 1 => preloadState = "fulfilled" /\ listening
    /\ listening => onCompleteCount = 1

\* C8: onFrameUpdated(i) is fired only after the frame is drawn - every
\* onFrameUpdated(i) of a step is preceded in that step by a draw of an
\* image loaded for index i, and a step in which a display load fails draws
\* nothing and fires no onFrameUpdated.
C8_FrameUpdatedAfterDraw ==
    /\ \A k \in EventTypes({"onFrameUpdated"}) :
          \E j \in 1 .. (k - 1) :
              /\ events[j].type = "draw"
              /\ events[j].img # NoImage
              /\ events[j].img.index = events[k].index
    /\ EventTypes({"displayFailed"}) # {} =>
          EventTypes({"draw", "onFrameUpdated"}) = {}

\* C8 witness: a display load for a frame beyond the first has completed,
\* the frame was drawn and onFrameUpdated was fired for it.
C8_Witness ==
    \E k \in EventTypes({"onFrameUpdated"}) :
        /\ events[k].index > 0
        /\ \E j \in 1 .. (k - 1) : events[j].type = "draw"

\* C9: background fill never runs concurrently with a forward chain - a step
\* in which the background filler issues a fetch starts in a state where
\* the forward-loading flag is clear and no forward chain has unsettled
\* member fetches.
C9_NoFillDuringForward ==
    [][(\E f \in inflight' \ inflight : f.kind = "interval") =>
          /\ ~ isFowardLoading
          /\ \A g \in inflight : g.kind # "forward"]_vars

\* C10: a preload fraction that yields zero images is a no-op - once the
\* first frame has been drawn the background timer has been armed and
\* onComplete has been fired.
C10_ZeroPreloadReady ==
    (preloadWindow = {} /\ listening) =>
        (intervalState # "unset" /\ onCompleteCount = 1)

ForwardFetches(fetches) == {f \in fetches : f.kind = "forward"}

IntervalFetches(fetches) == {f \in fetches : f.kind = "interval"}

\* C11: the forward-loading flag tracks chain activity - whenever every
\* started forward chain has settled, by success or by the failure of a
\* member fetch, isFowardLoading is false.
C11_FlagTracksChains ==
    (pendingChains = {} /\ ForwardFetches(inflight) = {}) => ~ isFowardLoading

\* C12: a failed forward chain does not disable look-ahead - once a forward
\* chain has settled by the failure of a member fetch and no forward fetch
\* is in flight, a step in which a display load succeeds for an index whose
\* look-ahead window is not fully cached issues forward fetches.
C12_LookAheadAfterFailure ==
    [][(/\ forwardLoading = Rejected
        /\ ForwardFetches(inflight) = {}
        /\ \E k \in 1 .. Len(events') :
              /\ events'[k].type = "onFrameUpdated"
              /\ \E i \in forwardWindow(events'[k].index) :
                    loadedImages'[i] = NoImage)
       => ForwardFetches(inflight' \ inflight) # {}]_vars

\* C13: AlreadyLoaded does not abort the background fill loop - a step that
\* advances the background cursor leaves it either at N-1 or at an index
\* for which the filler has a fetch in flight; it never stops on an index
\* that was skipped because it was already cached.
C13_SkipContinues ==
    [][latestIntervalLoadedImage' > latestIntervalLoadedImage /\ intervalState = "armed"
       => \/ latestIntervalLoadedImage' = numberOfImages - 1
          \/ \E f \in IntervalFetches(inflight') :
                f.img.index = latestIntervalLoadedImage']_vars

\* C14: background fill stops permanently once its cursor reaches N-1 - the
\* timer is cancelled only by a tick that observes cursor = N-1, and once it
\* is cancelled it stays cancelled, the cursor never changes again and the
\* filler issues no further fetch.
C14_FillStops ==
    [][/\ (intervalState = "armed" /\ intervalState' # "armed") =>
              /\ intervalState' = "cleared"
              /\ latestIntervalLoadedImage = numberOfImages - 1
       /\ intervalState = "cleared" =>
              /\ intervalState' = "cleared"
              /\ latestIntervalLoadedImage' = latestIntervalLoadedImage
              /\ latestIntervalLoadedImage = numberOfImages - 1
              /\ IntervalFetches(inflight' \ inflight) = {}]_vars

\* C14 witness: the cursor has reached N-1 and a tick has cancelled the timer
C14_Witness ==
    intervalState = "cleared" /\ latestIntervalLoadedImage = numberOfImages - 1

(***************************************************************************)
(* The idle session: the host never scrolls or resizes, every fetch        *)
(* succeeds, and timer ticks and load events are not postponed forever.    *)
(* The last configuration has the shape of the defaults (N = 10,           *)
(* intervalLoadPercentage = 0.02): N times the interval percentage is      *)
(* below one.                                                              *)
(***************************************************************************)
FillConfigs ==
    {Option(3, 1, Pct(1, 4), Pct(2, 4), Pct(3, 4)),
     Option(4, 1, Pct(1, 4), Pct(1, 4), Pct(1, 4)),
     Option(4, 1, Pct(2, 4), Pct(2, 4), Pct(2, 4)),
     Option(4, 1, Pct(1, 4), Pct(2, 4), Pct(1, 8))}

InitFill ==
    /\ opt \in FillConfigs
    /\ windowHeight = MaxWindowHeight
    /\ scrollTop \in ScrollOffsets
    /\ hostEvents = 0
    /\ Establish(preloader(Fresh, scrollTop))
    /\ probe = NoProbe

NextFill ==
    \/ ImageLoad
    \/ IntervalTick

FairFill == WF_vars(IntervalTick) /\ WF_vars(ImageLoad)

SpecFill == InitFill /\ [][NextFill]_vars /\ FairFill

CatalogLoaded == \A i \in Indices : loadedImages[i] # NoImage

\* C15: background fill eventually loads the remaining catalog - once the
\* controller is Ready then, with every fetch succeeding and fair ticks and
\* load events, eventually every index 0..N-1 is in the low-tier cache and
\* the interval timer is cancelled.
C15_FillCompletes ==
    (listening /\ onCompleteCount = 1) ~>
        (CatalogLoaded /\ intervalState = "cleared")

\* the look-ahead window as the claim C16 states it: r+1 <= i < ub with
\* ub = min(r + N * forwardLoadingThreshold, N)
LookAhead(r) ==
    {i \in Indices :
        /\ r + 1 <= i
        /\ i < numberOfImages
        /\ i * opt.forwardLoadingThreshold.den <
              r * opt.forwardLoadingThreshold.den
                  + numberOfImages * opt.forwardLoadingThreshold.num}

Resolved(scroll) ==
    getRequestedImageIndex(scroll, windowHeight, opt.pxPerImg, numberOfImages)

\* C17: a failed fetch leaves no cache entry and is retryable - a step in
\* which a fetch fails changes neither cache, and a later display request
\* for a key that is not cached (a scroll for the low tier, the high-res
\* timer for the high tier) issues a new fetch for that key.
C17_FailureRetryable ==
    [][/\ (\E k \in 1 .. Len(events') : events'[k].type = "error") =>
              /\ loadedImages' = loadedImages
              /\ loadedHighResImages' = loadedHighResImages
       /\ (listening /\ scrollTop' # scrollTop
              /\ loadedImages[Resolved(scrollTop')] = NoImage) =>
              \E f \in inflight' \ inflight :
                  f.img.index = Resolved(scrollTop') /\ ~ f.img.highRes
       /\ (HDTimerId /\ ~ HDTimerId'
              /\ loadedHighResImages[Resolved(scrollTop)] = NoImage) =>
              \E f \in inflight' \ inflight :
                  f.img.index = Resolved(scrollTop) /\ f.img.highRes]_vars

\* C17 witness: the fetch of the frame under the viewport has failed, the
\* key is still absent from its cache and the host can scroll again
C17_Witness ==
    \E k \in EventTypes({"displayFailed"}) :
        /\ listening
        /\ hostEvents < MaxHostEvents
        /\ events[k].img # NoImage
        /\ Lookup(Cur, events[k].img.highRes, events[k].index) = NoImage

C19_CursorMonotone ==
    [][/\ latestIntervalLoadedImage' >= latestIntervalLoadedImage
       /\ latestIntervalLoadedImage' <= numberOfImages - 1
       /\ \A f \in IntervalFetches(inflight' \ inflight) :
             /\ ~ f.img.highRes
             /\ f.img.index > latestIntervalLoadedImage
             /\ f.img.index = latestIntervalLoadedImage'
       /\ \A f \in IntervalFetches(inflight') :
             f.img.index <= latestIntervalLoadedImage']_vars

\* C19 witness: a tick has fired while an earlier tick's loop was suspended;
\* both loops await a fetch, for different indices
C19_Witness ==
    \E x, y \in loops :
        /\ x.id # y.id
        /\ \E f, g \in IntervalFetches(inflight) :
              f.ref = x.id /\ g.ref = y.id /\ f.img.index < g.img.index

(***************************************************************************)
(* drawOnCanvas on its own: the arguments of its drawImage call, computed  *)
(* statement by statement in exact rational arithmetic (the code computes  *)
(* in doubles).                                                            *)
(***************************************************************************)
MaxDim == 8

RECURSIVE GCD(_, _)
GCD(a, b) == IF b = 0 THEN a ELSE GCD(b, a % b)

Abs(x) == IF x < 0 THEN 0 - x ELSE x

\* the rational n / d in lowest terms, d > 0
Frac(n, d) ==
    LET g == GCD(Abs(n), Abs(d))
    IN  [n |-> (IF d < 0 THEN 0 - n ELSE n) \div g, d |-> Abs(d) \div g]

Whole(k) == Frac(k, 1)
FMul(x, y) == Frac(x.n * y.n, x.d * y.d)
FDiv(x, y) == Frac(x.n * y.d, x.d * y.n)
FSub(x, y) == Frac(x.n * y.d - y.n * x.d, x.d * y.d)
FLess(x, y) == x.n * y.d < y.n * x.d
FMin(x, y) == IF FLess(y, x) THEN y ELSE x

\* Math.round: the nearest integer, halves upwards
MathRound(x) == (2 * x.n + x.d) \div (2 * x.d)

\* the arguments sourceX, sourceY, sourceWidth, sourceHeight and the
\* destination rectangle of the drawImage call (lines 205-238)
drawImageArguments(canvasWidth, canvasHeight, imageWidth, imageHeight) ==
    LET offsetX == Frac(1, 2)
        offsetY == Frac(1, 2)
        lowestRatio == FMin(Frac(canvasWidth, imageWidth),
                            Frac(canvasHeight, imageHeight))
        resizedImageWidth0 == FMul(Whole(imageWidth), lowestRatio)
        resizedImageHeight0 == FMul(Whole(imageWidth), lowestRatio)   \* line 216
        adjustedRatio ==
            IF MathRound(resizedImageHeight0) < canvasHeight
            THEN FDiv(Whole(canvasHeight), resizedImageHeight0)
            ELSE IF MathRound(resizedImageWidth0) < canvasWidth
            THEN FDiv(Whole(canvasWidth), resizedImageWidth0)
            ELSE Whole(1)
        resizedImageWidth == FMul(resizedImageWidth0, adjustedRatio)
        resizedImageHeight == FMul(resizedImageHeight0, adjustedRatio)
        sourceWidth == FDiv(Whole(imageWidth),
                            FDiv(resizedImageWidth, Whole(canvasWidth)))
        sourceHeight == FDiv(Whole(imageHeight),
                             FDiv(resizedImageHeight, Whole(canvasHeight)))
        sourceX == FMul(FSub(Whole(imageWidth), sourceWidth), offsetX)
        sourceY == FMul(FSub(Whole(imageHeight), sourceHeight), offsetY)
    IN  [sourceX |-> IF FLess(sourceX, Whole(0)) THEN Whole(0) ELSE sourceX,
         sourceY |-> IF FLess(sourceY, Whole(0)) THEN Whole(0) ELSE sourceY,
         sourceWidth |-> FMin(sourceWidth, Whole(imageWidth)),
         sourceHeight |-> FMin(sourceHeight, Whole(imageHeight)),
         x |-> 0, y |-> 0, width |-> canvasWidth, height |-> canvasHeight]

\* a loaded image and a sized canvas, before the frame is drawn
InitCover ==
    /\ Constructed
    /\ \E cw \in 1 .. MaxDim, ch \in 1 .. MaxDim, iw \in 1 .. MaxDim, ih \in 1 .. MaxDim :
          probe = [fn |-> "canvas",
                   canvasWidth |-> cw, canvasHeight |-> ch,
                   imageWidth |-> iw, imageHeight |-> ih]

CoverCall ==
    /\ probe.fn = "canvas"
    /\ probe' = [fn |-> "drawOnCanvas",
                 canvasWidth |-> probe.canvasWidth,
                 canvasHeight |-> probe.canvasHeight,
                 imageWidth |-> probe.imageWidth,
                 imageHeight |-> probe.imageHeight,
                 result |-> drawImageArguments(probe.canvasWidth,
                                               probe.canvasHeight,
                                               probe.imageWidth,
                                               probe.imageHeight)]
    /\ UNCHANGED <<opt, windowHeight, scrollTop, loadedImages,
                   loadedHighResImages, inflight, preloadState, listening,
                   HDTimerId, intervalState, latestIntervalLoadedImage,
                   loops, forwardLoading, pendingChains, chainIndex, waiters,
                   isFowardLoading, onCompleteCount, events, hostEvents>>

NextCover == CoverCall

SpecCover == InitCover /\ [][NextCover]_vars

\* C20: cover fit preserves the aspect ratio - for every image and surface
\* the draw's destination is the whole surface and its source rectangle
\* lies inside the image, is centred, has the surface's aspect ratio
\* (sourceWidth * surfaceHeight = sourceHeight * surfaceWidth) and crops
\* along one axis only.
C20_CoverFit ==
    probe.fn = "drawOnCanvas" =>
        LET a == probe.result
        IN  /\ a.x = 0 /\ a.y = 0
            /\ a.width = probe.canvasWidth /\ a.height = probe.canvasHeight
            /\ ~ FLess(a.sourceX, Whole(0)) /\ ~ FLess(a.sourceY, Whole(0))
            /\ ~ FLess(Whole(probe.imageWidth),
                       Frac(a.sourceX.n * a.sourceWidth.d
                               + a.sourceWidth.n * a.sourceX.d,
                            a.sourceX.d * a.sourceWidth.d))
            /\ ~ FLess(Whole(probe.imageHeight),
                       Frac(a.sourceY.n * a.sourceHeight.d
                               + a.sourceHeight.n * a.sourceY.d,
                            a.sourceY.d * a.sourceHeight.d))
            /\ FMul(a.sourceWidth, Whole(probe.canvasHeight))
                  = FMul(a.sourceHeight, Whole(probe.canvasWidth))
            /\ \/ a.sourceWidth = Whole(probe.imageWidth)
               \/ a.sourceHeight = Whole(probe.imageHeight)
            /\ a.sourceX = FMul(FSub(Whole(probe.imageWidth), a.sourceWidth),
                                Frac(1, 2))
            /\ a.sourceY = FMul(FSub(Whole(probe.imageHeight), a.sourceHeight),
                                Frac(1, 2))

====
